---------------------------- MODULE Spec2Model ----------------------------
(***************************************************************************)
(* A model of black-widow's sqlmap task client,                            *)
(* src/app/managers/injection/sql_injection_util/sqlmaptask.py.            *)
(*                                                                         *)
(* The class attribute SqlmapTask.__TASKS is the process-wide registry:    *)
(* a dict api_url -> (dict task_id -> SqlmapTask).  Python dicts keep      *)
(* insertion order and task_list iterates the inner dict, so an inner dict *)
(* is modelled as a sequence of [key, val] items in insertion order; the   *)
(* outer dict is only read by key and is a function on its key set.        *)
(*                                                                         *)
(* Spec     : one caller, every public operation one atomic action.        *)
(* SpecConc : two callers running SqlmapTask.__init__ step by step.        *)
(***************************************************************************)
EXTENDS Integers, Sequences, FiniteSets, TLC

\* Bound on the number of SqlmapTask objects constructed in one behaviour.
MaxHandles == 3

\* api_url values handed in by callers (docstring: "http://127.0.0.1:8775").
Servers == {"http://a:8775", "http://b:8775"}

\* task ids a server may hand out or report.  They are opaque strings; one of
\* them is spelled like an api_url, which is what lets a task id meet a
\* top-level key of the registry.
TaskIds == {"abc123", "zzz999", "http://b:8775"}

\* target_url values handed in by callers.
Targets == {"http://target/?id=1"}

VARIABLES
    TASKS,      \* SqlmapTask.__TASKS
    handles,    \* every SqlmapTask object constructed so far (callers hold them)
    nobj,       \* number of objects constructed (object identity)
    lastCall,   \* record of the last public call: arguments, response, effects
    top,        \* SpecConc: __TASKS as api_url -> reference of an inner dict
    heap,       \* SpecConc: the inner dict objects, by reference
    pc,         \* SpecConc: each caller's position in __init__
    args,       \* SpecConc: each caller's constructor arguments
    ref,        \* SpecConc: each caller's loaded inner-dict reference
    lock,       \* SpecConc: holder of the callers' external lock, or NoCaller
    sync        \* SpecConc: whether the callers synchronise externally

seqVars  == <<TASKS, handles, nobj, lastCall>>
concVars == <<top, heap, pc, args, ref, lock, sync>>
vars     == <<TASKS, handles, nobj, lastCall, top, heap, pc, args, ref, lock, sync>>

----------------------------------------------------------------------------
(* Python values *)

\* Python's None, where a string is expected.
None == "None"

\* HttpRequest.Type members used by the class.
GET  == "get"
POST == "post"

\* The decoded JSON literals a `success` field may carry.
SuccessValues == {"true", "false", "null", "1", "0"}

\* Python truthiness of a decoded JSON scalar (`not success`).
Truthy(v) == v \notin {"false", "null", "0", "\"\""}

\* `v is None` for a decoded JSON scalar.
IsNone(v) == v = "null"

\* dict(): the empty dict (outer: no keys; inner: no items).
EmptyDict == << >>

\* keys of an inner (ordered) dict.
Keys(items) == {items[i].key : i \in 1..Len(items)}

\* inner[k] = v: an existing key keeps its position, a new key goes last.
Put(items, k, v) ==
    IF k \in Keys(items)
    THEN [i \in 1..Len(items) |->
            IF items[i].key = k THEN [key |-> k, val |-> v] ELSE items[i]]
    ELSE Append(items, [key |-> k, val |-> v])

\* inner[k], for k a key of the dict.
Lookup(items, k) == items[CHOOSE i \in 1..Len(items) : items[i].key = k].val

\* outer[k] = v.
OuterPut(d, k, v) == [x \in DOMAIN d \cup {k} |-> IF x = k THEN v ELSE d[x]]

\* outer.pop(k), for k a key of the dict.
OuterPop(d, k) == [x \in DOMAIN d \ {k} |-> d[x]]

Return(v)     == [kind |-> "return", value |-> v]
Raise(e, a)   == [kind |-> "raise", exc |-> e, arg |-> a]

----------------------------------------------------------------------------
(* The remote server: what one HTTP exchange can produce *)

\* A decoded body: a dict with an optional `success`, `taskid`, `tasks`.
Body(succ, tid, tks) ==
    [k \in (IF succ = None THEN {} ELSE {"success"})
           \cup (IF tid = None THEN {} ELSE {"taskid"})
           \cup (IF tks = {None} THEN {} ELSE {"tasks"}) |->
        CASE k = "success" -> succ
          [] k = "taskid"  -> tid
          [] k = "tasks"   -> tks]

Failures == {[kind |-> "transport_error"], [kind |-> "not_json"]}

Json(b) == [kind |-> "json", body |-> b]

\* Outcomes of GET /task/new.
NewResponses ==
    Failures \cup
    {Json(Body(s, t, {None})) : s \in SuccessValues \cup {None}, t \in TaskIds \cup {None}}

\* Outcomes of GET /admin/list.
ListResponses ==
    Failures \cup
    {Json(Body(s, None, A)) : s \in SuccessValues \cup {None},
                              A \in (SUBSET TaskIds) \cup {{None}}}

\* Outcomes of every other request.
PlainResponses ==
    Failures \cup {Json(Body(s, None, {None})) : s \in SuccessValues \cup {None}}

----------------------------------------------------------------------------
(* External collaborators (black_widow.app.managers.request, .services) *)

\* HttpRequest.request(url, request_type, json=json): one HTTP exchange.  It
\* returns the response text, or lets a transport failure out.
HttpRequest_request(url, request_type, json, resp) ==
    [events |-> << [e |-> "http", url |-> url, type |-> request_type, json |-> json] >>,
     out    |-> IF resp.kind = "transport_error"
                THEN Raise("TransportError", url)
                ELSE Return(resp)]

\* JsonSerializer.load_json(text): the decoded body, or a decode failure.
JsonSerializer_load_json(text) ==
    IF text.kind = "json" THEN Return(text.body) ELSE Raise("DecodeError", "")

LogInfo(url)  == [e |-> "log_info", url |-> url]
LogError(url) == [e |-> "log_error", url |-> url]

----------------------------------------------------------------------------
(* SqlmapTask *)

\* _request with the raise of line 189 left out: the failure is only logged.
_request_no_raise(url, request_type, json, resp) ==
    LET response == HttpRequest_request(url, request_type, json, resp) IN
    IF response.out.kind = "raise" THEN response
    ELSE
    LET r_data == JsonSerializer_load_json(response.out.value) IN
    IF r_data.kind = "raise" THEN [events |-> response.events, out |-> r_data]
    ELSE
    LET data    == r_data.value
        logged  == Append(response.events, LogInfo(url))
        success == IF "success" \in DOMAIN data THEN data["success"] ELSE "null"
    IN  IF IsNone(success)
        THEN [events |-> logged, out |-> Return(data)]
        ELSE IF ~Truthy(success)
        THEN [events |-> Append(logged, LogError(url)), out |-> Return(data)]
        ELSE [events |-> logged, out |-> Return(data)]

\* _request without the test of line 184: a body with no `success` is a failure.
_request_strict(url, request_type, json, resp) ==
    LET response == HttpRequest_request(url, request_type, json, resp) IN
    IF response.out.kind = "raise" THEN response
    ELSE
    LET r_data == JsonSerializer_load_json(response.out.value) IN
    IF r_data.kind = "raise" THEN [events |-> response.events, out |-> r_data]
    ELSE
    LET data    == r_data.value
        logged  == Append(response.events, LogInfo(url))
        success == IF "success" \in DOMAIN data THEN data["success"] ELSE "null"
    IN  IF ~Truthy(success)
        THEN [events |-> Append(logged, LogError(url)),
              out    |-> Raise("RequestException", "Request to " \o url \o " failed")]
        ELSE [events |-> logged, out |-> Return(data)]

\* _request sending the request again when the server says `success: false`.
_request_retry(url, request_type, json, resp) ==
    LET response == HttpRequest_request(url, request_type, json, resp) IN
    IF response.out.kind = "raise" THEN response
    ELSE
    LET r_data == JsonSerializer_load_json(response.out.value) IN
    IF r_data.kind = "raise" THEN [events |-> response.events, out |-> r_data]
    ELSE
    LET data    == r_data.value
        logged  == Append(response.events, LogInfo(url))
        success == IF "success" \in DOMAIN data THEN data["success"] ELSE "null"
    IN  IF IsNone(success)
        THEN [events |-> logged, out |-> Return(data)]
        ELSE IF ~Truthy(success)
        THEN [events |-> logged \o response.events
                            \o << LogInfo(url), LogError(url) >>,
              out    |-> Raise("RequestException", "Request to " \o url \o " failed")]
        ELSE [events |-> logged, out |-> Return(data)]

\* SqlmapTask._request, lines 172-190.  `resp` is what the server answers.
_request(url, request_type, json, resp) ==
    LET response == HttpRequest_request(url, request_type, json, resp) IN
    IF response.out.kind = "raise" THEN response
    ELSE
    LET r_data == JsonSerializer_load_json(response.out.value) IN
    IF r_data.kind = "raise" THEN [events |-> response.events, out |-> r_data]
    ELSE
    LET data    == r_data.value
        logged  == Append(response.events, LogInfo(url))
        success == IF "success" \in DOMAIN data THEN data["success"] ELSE "null"
    IN  IF IsNone(success)
        THEN [events |-> logged, out |-> Return(data)]
        ELSE IF ~Truthy(success)
        THEN [events |-> Append(logged, LogError(url)),
              out    |-> Raise("RequestException", "Request to " \o url \o " failed")]
        ELSE [events |-> logged, out |-> Return(data)]

\* __init__ with line 45 as a setdefault: a registered task id keeps its object.
__init__setdefault(tasks, task_id, api_url, target_url, obj) ==
    LET self == [id |-> task_id, api_url |-> api_url,
                 target_url |-> target_url, obj |-> obj]
        t1   == IF api_url \notin DOMAIN tasks
                THEN OuterPut(tasks, api_url, EmptyDict)
                ELSE tasks
    IN  [TASKS |-> IF task_id \in Keys(t1[api_url]) THEN t1
                   ELSE OuterPut(t1, api_url, Put(t1[api_url], task_id, self)),
         self  |-> self]

\* SqlmapTask.__init__, lines 39-45: the new object and the registry after it.
__init__(tasks, task_id, api_url, target_url, obj) ==
    LET self == [id |-> task_id, api_url |-> api_url,
                 target_url |-> target_url, obj |-> obj]
        t1   == IF api_url \notin DOMAIN tasks
                THEN OuterPut(tasks, api_url, EmptyDict)
                ELSE tasks
    IN  [TASKS |-> OuterPut(t1, api_url, Put(t1[api_url], task_id, self)),
         self  |-> self]

\* The loop of task_list, lines 65-67, from item i of task_dict on: the
\* registry left behind, the keys popped, and the KeyError if one is raised.
RECURSIVE PopStale(_, _, _, _, _)
PopStale(tasks, task_dict, active_task_keys, i, popped) ==
    IF i > Len(task_dict)
    THEN [TASKS |-> tasks, popped |-> popped, out |-> Return(None)]
    ELSE LET task_id == task_dict[i].key IN
         IF task_id \in active_task_keys
         THEN PopStale(tasks, task_dict, active_task_keys, i + 1, popped)
         ELSE IF task_id \in DOMAIN tasks
         THEN PopStale(OuterPop(tasks, task_id), task_dict, active_task_keys,
                       i + 1, Append(popped, task_id))
         ELSE [TASKS |-> tasks, popped |-> popped, out |-> Raise("KeyError", task_id)]

\* task_list returning the registry from the short-circuit of lines 63-64.
task_list_short_registry(tasks, api_url, resp) ==
    LET rq == _request(api_url \o "/admin/list", GET, None, resp) IN
    IF rq.out.kind = "raise"
    THEN [TASKS |-> tasks, events |-> rq.events, out |-> rq.out]
    ELSE
    LET r_data == rq.out.value IN
    IF "tasks" \notin DOMAIN r_data
    THEN [TASKS |-> tasks, events |-> rq.events, out |-> Raise("KeyError", "tasks")]
    ELSE IF api_url \notin DOMAIN tasks
    THEN [TASKS |-> tasks, events |-> rq.events, out |-> Return(tasks)]
    ELSE
    LET loop == PopStale(tasks, tasks[api_url], r_data["tasks"], 1, << >>)
        pops == [i \in 1..Len(loop.popped) |-> [e |-> "pop", key |-> loop.popped[i]]]
    IN  [TASKS  |-> loop.TASKS,
         events |-> rq.events \o pops,
         out    |-> IF loop.out.kind = "raise" THEN loop.out ELSE Return(loop.TASKS)]

\* SqlmapTask.task_list, lines 54-68.
task_list(tasks, api_url, resp) ==
    LET rq == _request(api_url \o "/admin/list", GET, None, resp) IN
    IF rq.out.kind = "raise"
    THEN [TASKS |-> tasks, events |-> rq.events, out |-> rq.out]
    ELSE
    LET r_data == rq.out.value IN
    IF "tasks" \notin DOMAIN r_data
    THEN [TASKS |-> tasks, events |-> rq.events, out |-> Raise("KeyError", "tasks")]
    ELSE IF api_url \notin DOMAIN tasks
    THEN [TASKS |-> tasks, events |-> rq.events, out |-> Return(EmptyDict)]
    ELSE
    LET loop == PopStale(tasks, tasks[api_url], r_data["tasks"], 1, << >>)
        pops == [i \in 1..Len(loop.popped) |-> [e |-> "pop", key |-> loop.popped[i]]]
    IN  [TASKS  |-> loop.TASKS,
         events |-> rq.events \o pops,
         out    |-> IF loop.out.kind = "raise" THEN loop.out ELSE Return(loop.TASKS)]

\* task_flush also dropping the server's entry from the registry.
task_flush_clearing(tasks, api_url, resp) ==
    LET rq == _request(api_url \o "/admin/flush", GET, None, resp) IN
    [TASKS  |-> IF rq.out.kind = "return" /\ api_url \in DOMAIN tasks
                THEN OuterPop(tasks, api_url) ELSE tasks,
     events |-> rq.events,
     out    |-> IF rq.out.kind = "raise" THEN rq.out ELSE Return(None)]

\* SqlmapTask.task_flush, lines 71-76.
task_flush(tasks, api_url, resp) ==
    LET rq == _request(api_url \o "/admin/flush", GET, None, resp) IN
    [TASKS  |-> tasks,
     events |-> rq.events,
     out    |-> IF rq.out.kind = "raise" THEN rq.out ELSE Return(None)]

\* task_new preparing the server's mapping before it reads `taskid`.
task_new_eager(tasks, api_url, target_url, obj, resp) ==
    LET rq == _request(api_url \o "/task/new", GET, None, resp) IN
    IF rq.out.kind = "raise"
    THEN [TASKS |-> tasks, events |-> rq.events, out |-> rq.out]
    ELSE
    LET r_data == rq.out.value
        t1     == IF api_url \notin DOMAIN tasks
                  THEN OuterPut(tasks, api_url, EmptyDict)
                  ELSE tasks
    IN
    IF "taskid" \notin DOMAIN r_data
    THEN [TASKS |-> t1, events |-> rq.events, out |-> Raise("KeyError", "taskid")]
    ELSE
    LET made == __init__(t1, r_data["taskid"], api_url, target_url, obj) IN
    [TASKS  |-> made.TASKS,
     events |-> Append(rq.events, [e |-> "put", api_url |-> api_url,
                                   key |-> made.self.id]),
     out    |-> Return(made.self)]

\* SqlmapTask.task_new, lines 83-91.
task_new(tasks, api_url, target_url, obj, resp) ==
    LET rq == _request(api_url \o "/task/new", GET, None, resp) IN
    IF rq.out.kind = "raise"
    THEN [TASKS |-> tasks, events |-> rq.events, out |-> rq.out]
    ELSE
    LET r_data == rq.out.value IN
    IF "taskid" \notin DOMAIN r_data
    THEN [TASKS |-> tasks, events |-> rq.events, out |-> Raise("KeyError", "taskid")]
    ELSE
    LET made == __init__(tasks, r_data["taskid"], api_url, target_url, obj) IN
    [TASKS  |-> made.TASKS,
     events |-> Append(rq.events, [e |-> "put", api_url |-> api_url,
                                   key |-> made.self.id]),
     out    |-> Return(made.self)]

\* SqlmapTask.__request, lines 194-202.
__request(self, path, request_type, json, resp) ==
    LET url == self.api_url \o path IN
    _request(url, request_type, json, resp)

\* SqlmapTask.__option_request, lines 204-216.
__option_request(self, action, request_type, json, resp) ==
    __request(self, "/option/" \o self.id \o "/" \o action, request_type, json, resp)

\* SqlmapTask.__task_request, lines 218-225.
__task_request(self, action, request_type, json, resp) ==
    __request(self, "/task/" \o self.id \o "/" \o action, request_type, json, resp)

\* SqlmapTask.__scan_request, lines 227-234.
__scan_request(self, action, request_type, json, resp) ==
    __request(self, "/scan/" \o self.id \o "/" \o action, request_type, json, resp)

task_delete(self, resp) == __task_request(self, "delete", GET, None, resp)

option_list(self, resp) == __option_request(self, "list", GET, None, resp)

option_get(self, options, resp) == __option_request(self, "get", POST, options, resp)

option_set(self, options, resp) == __option_request(self, "set", POST, options, resp)

scan_start(self, resp)  == __scan_request(self, "start", POST, EmptyDict, resp)

scan_stop(self, resp)   == __scan_request(self, "stop", GET, None, resp)

scan_kill(self, resp)   == __scan_request(self, "kill", GET, None, resp)

scan_status(self, resp) == __scan_request(self, "status", GET, None, resp)

scan_data(self, resp)   == __scan_request(self, "data", GET, None, resp)

scan_log(self, resp)    == __scan_request(self, "log", GET, None, resp)

----------------------------------------------------------------------------
(* One caller: every public operation is one call *)

OptionNames  == << "cookie", "referer" >>
OptionValues == [cookie |-> "x=1"]

NoCall ==
    [op |-> "none", api_url |-> None, self |-> None, resp |-> None,
     pre |-> EmptyDict, events |-> << >>, out |-> Return(None)]

\* No call is in progress: the caller is free to make one.
Idle == lastCall.op = "none"

\* A call of a static method or of the constructor: it may change the registry.
StaticCall(op, api_url, resp, res) ==
    /\ TASKS' = res.TASKS
    /\ lastCall' = [op |-> op, api_url |-> api_url, self |-> None, resp |-> resp,
                    pre |-> TASKS, events |-> res.events, out |-> res.out]
    /\ UNCHANGED concVars

\* A call of a method of the task object `self`: it has no access to the
\* registry beyond what the method does, which is one request.
MethodCall(op, self, resp, rq) ==
    /\ lastCall' = [op |-> op, api_url |-> self.api_url, self |-> self, resp |-> resp,
                    pre |-> TASKS, events |-> rq.events, out |-> rq.out]
    /\ UNCHANGED <<TASKS, handles, nobj>>
    /\ UNCHANGED concVars

Construct ==
    /\ Idle
    /\ \E task_id \in TaskIds, api_url \in Servers, target_url \in Targets :
        /\ nobj < MaxHandles
        /\ LET made == __init__(TASKS, task_id, api_url, target_url, nobj + 1) IN
           /\ StaticCall("SqlmapTask", api_url, None,
                         [TASKS  |-> made.TASKS,
                          events |-> << [e |-> "put", api_url |-> api_url,
                                         key |-> task_id] >>,
                          out    |-> Return(made.self)])
           /\ handles' = handles \cup {made.self}
           /\ nobj' = nobj + 1

TaskNew ==
    /\ Idle
    /\ \E api_url \in Servers, target_url \in Targets, resp \in NewResponses :
        LET res == task_new(TASKS, api_url, target_url, nobj + 1, resp)
            constructed == res.out.kind = "return"
        IN  /\ constructed => nobj < MaxHandles
            /\ StaticCall("task_new", api_url, resp, res)
            /\ handles' = IF constructed THEN handles \cup {res.out.value} ELSE handles
            /\ nobj' = IF constructed THEN nobj + 1 ELSE nobj

TaskList ==
    /\ Idle
    /\ \E api_url \in Servers, resp \in ListResponses :
        /\ StaticCall("task_list", api_url, resp, task_list(TASKS, api_url, resp))
        /\ UNCHANGED <<handles, nobj>>

TaskFlush ==
    /\ Idle
    /\ \E api_url \in Servers, resp \in PlainResponses :
        /\ StaticCall("task_flush", api_url, resp, task_flush(TASKS, api_url, resp))
        /\ UNCHANGED <<handles, nobj>>

TaskDelete ==
    /\ Idle
    /\ \E self \in handles, resp \in PlainResponses :
        MethodCall("task_delete", self, resp, task_delete(self, resp))

OptionList ==
    /\ Idle
    /\ \E self \in handles, resp \in PlainResponses :
        MethodCall("option_list", self, resp, option_list(self, resp))

OptionGet ==
    /\ Idle
    /\ \E self \in handles, resp \in PlainResponses :
        MethodCall("option_get", self, resp, option_get(self, OptionNames, resp))

OptionSet ==
    /\ Idle
    /\ \E self \in handles, resp \in PlainResponses :
        MethodCall("option_set", self, resp, option_set(self, OptionValues, resp))

ScanStart ==
    /\ Idle
    /\ \E self \in handles, resp \in PlainResponses :
        MethodCall("scan_start", self, resp, scan_start(self, resp))

ScanStop ==
    /\ Idle
    /\ \E self \in handles, resp \in PlainResponses :
        MethodCall("scan_stop", self, resp, scan_stop(self, resp))

ScanKill ==
    /\ Idle
    /\ \E self \in handles, resp \in PlainResponses :
        MethodCall("scan_kill", self, resp, scan_kill(self, resp))

ScanStatus ==
    /\ Idle
    /\ \E self \in handles, resp \in PlainResponses :
        MethodCall("scan_status", self, resp, scan_status(self, resp))

ScanData ==
    /\ Idle
    /\ \E self \in handles, resp \in PlainResponses :
        MethodCall("scan_data", self, resp, scan_data(self, resp))

ScanLog ==
    /\ Idle
    /\ \E self \in handles, resp \in PlainResponses :
        MethodCall("scan_log", self, resp, scan_log(self, resp))

\* The call is over: the caller has its result or its exception, and the
\* record of the call is dropped.  Nothing of the program changes.
Returned ==
    /\ ~Idle
    /\ lastCall' = NoCall
    /\ UNCHANGED <<TASKS, handles, nobj>>
    /\ UNCHANGED concVars

----------------------------------------------------------------------------
(* Two callers constructing task objects at the same time.                  *)
(* __init__ is several bytecodes; the interpreter may switch threads        *)
(* between any two of them.  The inner dicts are objects: a caller that has *)
(* loaded a reference to one keeps writing to it after the registry's       *)
(* entry has been replaced.                                                 *)

Callers  == {"c1", "c2"}
NoCaller == "nobody"

\* The task object caller c is constructing (lines 40-42).
SelfOf(c) ==
    [id |-> args[c].task_id, api_url |-> args[c].api_url,
     target_url |-> args[c].target_url, obj |-> c]

\* A task object registered before the two callers start.
Earlier(api_url) ==
    [id |-> "abc123", api_url |-> api_url,
     target_url |-> "http://target/?id=1", obj |-> "earlier"]

\* The registries the callers may start from: each server either has no
\* entry, or an inner dict holding one earlier task.
StartTop(S) ==
    [s \in S |-> IF S = Servers /\ s = "http://b:8775" THEN 2 ELSE 1]

StartHeap(S) ==
    IF S = {} THEN << >>
    ELSE IF S = Servers
    THEN << << [key |-> "abc123", val |-> Earlier("http://a:8775")] >>,
            << [key |-> "abc123", val |-> Earlier("http://b:8775")] >> >>
    ELSE << << [key |-> "abc123", val |-> Earlier(CHOOSE s \in S : TRUE)] >> >>

\* The callers' own lock, taken before the constructor is called.
Acquire(c) ==
    /\ sync
    /\ pc[c] = "start"
    /\ lock = NoCaller
    /\ lock' = c
    /\ pc' = [pc EXCEPT ![c] = "enter"]
    /\ UNCHANGED <<top, heap, args, ref, sync>>
    /\ UNCHANGED seqVars

\* Lines 40-42: the object's own fields are set.
Enter(c) ==
    /\ pc[c] = "enter" \/ (pc[c] = "start" /\ ~sync)
    /\ pc' = [pc EXCEPT ![c] = "L43"]
    /\ UNCHANGED <<top, heap, args, ref, lock, sync>>
    /\ UNCHANGED seqVars

\* Line 43 without its test: the inner dict is always created anew.
Check43_always(c) ==
    /\ pc[c] = "L43"
    /\ pc' = [pc EXCEPT ![c] = "L44"]
    /\ UNCHANGED <<top, heap, args, ref, lock, sync>>
    /\ UNCHANGED seqVars

\* Line 43: if SqlmapTask.__TASKS.get(api_url) is None
Check43(c) ==
    /\ pc[c] = "L43"
    /\ pc' = [pc EXCEPT ![c] =
                IF args[c].api_url \notin DOMAIN top THEN "L44" ELSE "L45"]
    /\ UNCHANGED <<top, heap, args, ref, lock, sync>>
    /\ UNCHANGED seqVars

\* Line 44: SqlmapTask.__TASKS[api_url] = dict()
Create44(c) ==
    /\ pc[c] = "L44"
    /\ heap' = Append(heap, EmptyDict)
    /\ top' = OuterPut(top, args[c].api_url, Len(heap) + 1)
    /\ pc' = [pc EXCEPT ![c] = "L45"]
    /\ UNCHANGED <<args, ref, lock, sync>>
    /\ UNCHANGED seqVars

\* Line 45, the subscript load: SqlmapTask.__TASKS[api_url]
Load45(c) ==
    /\ pc[c] = "L45"
    /\ ref' = [ref EXCEPT ![c] = top[args[c].api_url]]
    /\ pc' = [pc EXCEPT ![c] = "L45store"]
    /\ UNCHANGED <<top, heap, args, lock, sync>>
    /\ UNCHANGED seqVars

\* Line 45, the subscript store: <inner dict>[task_id] = self
Store45(c) ==
    /\ pc[c] = "L45store"
    /\ heap' = [heap EXCEPT ![ref[c]] = Put(@, args[c].task_id, SelfOf(c))]
    /\ pc' = [pc EXCEPT ![c] = "exit"]
    /\ UNCHANGED <<top, args, ref, lock, sync>>
    /\ UNCHANGED seqVars

\* The callers' own lock, given back after the constructor has returned.
Release(c) ==
    /\ sync
    /\ pc[c] = "exit"
    /\ lock = c
    /\ lock' = NoCaller
    /\ pc' = [pc EXCEPT ![c] = "done"]
    /\ UNCHANGED <<top, heap, args, ref, sync>>
    /\ UNCHANGED seqVars

ConcIdle ==
    /\ top = EmptyDict
    /\ heap = << >>
    /\ pc = [c \in Callers |-> "idle"]
    /\ args = [c \in Callers |-> None]
    /\ ref = [c \in Callers |-> 0]
    /\ lock = NoCaller
    /\ sync = FALSE

SeqIdle ==
    /\ TASKS = EmptyDict
    /\ handles = {}
    /\ nobj = 0
    /\ lastCall = NoCall

Init ==
    /\ SeqIdle
    /\ ConcIdle

Next ==
    \/ Construct
    \/ TaskNew
    \/ TaskList
    \/ TaskFlush
    \/ TaskDelete
    \/ OptionList
    \/ OptionGet
    \/ OptionSet
    \/ ScanStart
    \/ ScanStop
    \/ ScanKill
    \/ ScanStatus
    \/ ScanData
    \/ ScanLog
    \/ Returned

Spec == Init /\ [][Next]_vars

InitConc ==
    /\ SeqIdle
    /\ sync \in BOOLEAN
    /\ \E S \in SUBSET Servers : top = StartTop(S) /\ heap = StartHeap(S)
    /\ args \in [Callers -> [task_id : TaskIds, api_url : Servers, target_url : Targets]]
    /\ pc = [c \in Callers |-> "start"]
    /\ ref = [c \in Callers |-> 0]
    /\ lock = NoCaller

NextConc ==
    \/ \E c \in Callers : Acquire(c)
    \/ \E c \in Callers : Enter(c)
    \/ \E c \in Callers : Check43(c)
    \/ \E c \in Callers : Create44(c)
    \/ \E c \in Callers : Load45(c)
    \/ \E c \in Callers : Store45(c)
    \/ \E c \in Callers : Release(c)

SpecConc == InitConc /\ [][NextConc]_vars

----------------------------------------------------------------------------
(* Vocabulary of the properties: what the last call was given and did *)

MethodOps ==
    {"task_delete", "option_list", "option_get", "option_set", "scan_start",
     "scan_stop", "scan_kill", "scan_status", "scan_data", "scan_log"}

\* The last call was a public operation that talks to the server.
Called == lastCall.op \in MethodOps \cup {"task_new", "task_list", "task_flush"}

Decoded      == Called /\ lastCall.resp.kind = "json"
ReplyBody    == lastCall.resp.body
NoSuccessKey == Decoded /\ "success" \notin DOMAIN ReplyBody
SaysFalse    == Decoded /\ "success" \in DOMAIN ReplyBody
                        /\ ReplyBody["success"] = "false"
SaysTruthy   == Decoded /\ "success" \in DOMAIN ReplyBody
                        /\ ReplyBody["success"] \in {"true", "1"}
Succeeded    == NoSuccessKey \/ SaysTruthy

\* The URL the operation has to address (the table of the HTTP surface).
RequestUrl ==
    LET op == lastCall.op
        base == lastCall.api_url
        id == lastCall.self.id
    IN  CASE op = "task_list"   -> base \o "/admin/list"
          [] op = "task_flush"  -> base \o "/admin/flush"
          [] op = "task_new"    -> base \o "/task/new"
          [] op = "task_delete" -> base \o "/task/" \o id \o "/delete"
          [] op = "option_list" -> base \o "/option/" \o id \o "/list"
          [] op = "option_get"  -> base \o "/option/" \o id \o "/get"
          [] op = "option_set"  -> base \o "/option/" \o id \o "/set"
          [] op = "scan_start"  -> base \o "/scan/" \o id \o "/start"
          [] op = "scan_stop"   -> base \o "/scan/" \o id \o "/stop"
          [] op = "scan_kill"   -> base \o "/scan/" \o id \o "/kill"
          [] op = "scan_status" -> base \o "/scan/" \o id \o "/status"
          [] op = "scan_data"   -> base \o "/scan/" \o id \o "/data"
          [] op = "scan_log"    -> base \o "/scan/" \o id \o "/log"

\* The (api_url, task_id) pairs a registry holds.
Pairs(reg) == UNION {{<<s, k>> : k \in Keys(reg[s])} : s \in DOMAIN reg}

HttpEvents == {i \in 1..Len(lastCall.events) : lastCall.events[i].e = "http"}

Raised(e) == lastCall.out.kind = "raise" /\ lastCall.out.exc = e

\* The last call was task_list(s) for a server s with an entry, and the
\* server answered a successful list carrying `tasks`.
Reconciled ==
    /\ lastCall.op = "task_list"
    /\ Succeeded
    /\ "tasks" \in DOMAIN ReplyBody
    /\ lastCall.api_url \in DOMAIN lastCall.pre

----------------------------------------------------------------------------
(* The properties *)

\* C1: after task_list(s), for a server s with an entry and a successful
\* /admin/list response carrying the authoritative set A, the call has
\* completed normally and every task id registered under s is in A.
C1_ReconcileInvariant ==
    Reconciled =>
        /\ lastCall.out.kind = "return"
        /\ lastCall.api_url \in DOMAIN TASKS =>
              Keys(TASKS[lastCall.api_url]) \subseteq ReplyBody["tasks"]

\* C2: task_list(s) removes by (api_url, task_id) only: every entry of
\* another server is kept as it was, and every entry of s whose task id is
\* in the authoritative list is kept.
C2_RemovesByPairOnly ==
    Reconciled =>
        /\ \A s \in DOMAIN lastCall.pre \ {lastCall.api_url} :
              s \in DOMAIN TASKS /\ TASKS[s] = lastCall.pre[s]
        /\ \A t \in Keys(lastCall.pre[lastCall.api_url]) \cap ReplyBody["tasks"] :
              <<lastCall.api_url, t>> \in Pairs(TASKS)

\* C3: when the decoded body carries success: false, the operation fails
\* with the RequestException that names the request URL, and returns nothing.
C3_SuccessFalseRaises ==
    SaysFalse =>
        /\ lastCall.out.kind = "raise"
        /\ lastCall.out.exc = "RequestException"
        /\ lastCall.out.arg = "Request to " \o RequestUrl \o " failed"

C3_Witness ==
    /\ lastCall.op = "scan_start"
    /\ SaysFalse
    /\ Raised("RequestException")

\* C4: when the decoded body has no success key, or a truthy one, the request
\* raises no failure and hands back exactly that body; the task methods,
\* which return what the request returns, return the body unchanged.
C4_PassThrough ==
    Succeeded =>
        /\ ~Raised("RequestException")
        /\ lastCall.op \in MethodOps =>
              lastCall.out.kind = "return" /\ lastCall.out.value = ReplyBody

C4_Witness ==
    /\ lastCall.op = "option_get"
    /\ SaysTruthy
    /\ ReplyBody["success"] = "1"
    /\ lastCall.out.kind = "return"

\* C5: task_new(s, target) against a server answering taskid = t returns a
\* task object with id t and api_url s, and the registry then maps (s, t) to
\* that very object, whatever the registry held before.
C5_CreateRegisters ==
    (lastCall.op = "task_new" /\ Succeeded /\ "taskid" \in DOMAIN ReplyBody) =>
        /\ lastCall.out.kind = "return"
        /\ lastCall.out.value.id = ReplyBody["taskid"]
        /\ lastCall.out.value.api_url = lastCall.api_url
        /\ lastCall.api_url \in DOMAIN TASKS
        /\ ReplyBody["taskid"] \in Keys(TASKS[lastCall.api_url])
        /\ Lookup(TASKS[lastCall.api_url], ReplyBody["taskid"]) = lastCall.out.value

\* task_new has replaced an object registered at (s, t) before the call.
C5_Witness ==
    /\ lastCall.op = "task_new"
    /\ Succeeded
    /\ "taskid" \in DOMAIN ReplyBody
    /\ lastCall.out.kind = "return"
    /\ <<lastCall.api_url, ReplyBody["taskid"]>> \in Pairs(lastCall.pre)
    /\ Lookup(lastCall.pre[lastCall.api_url], ReplyBody["taskid"]) # lastCall.out.value

\* C6 as stated: when the registry has no entry for s and the /admin/list
\* request succeeds, task_list(s) returns an empty mapping, raises nothing
\* and leaves the registry as it was.
C6_ShortCircuitOriginal ==
    (lastCall.op = "task_list" /\ Succeeded
        /\ lastCall.api_url \notin DOMAIN lastCall.pre) =>
        /\ lastCall.out.kind = "return"
        /\ DOMAIN lastCall.out.value = {}
        /\ TASKS = lastCall.pre

\* C6 amended: when the registry has no entry for s and the /admin/list
\* request succeeds with a body that carries `tasks`, task_list(s) returns an
\* empty mapping, raises nothing and leaves the registry as it was.
C6_ShortCircuit ==
    (lastCall.op = "task_list" /\ Succeeded /\ "tasks" \in DOMAIN ReplyBody
        /\ lastCall.api_url \notin DOMAIN lastCall.pre) =>
        /\ lastCall.out.kind = "return"
        /\ DOMAIN lastCall.out.value = {}
        /\ TASKS = lastCall.pre

\* The short-circuit was taken while another server had registered tasks.
C6_Witness ==
    /\ lastCall.op = "task_list"
    /\ Succeeded
    /\ "tasks" \in DOMAIN ReplyBody
    /\ lastCall.api_url \notin DOMAIN lastCall.pre
    /\ Pairs(lastCall.pre) # {}
    /\ lastCall.out.kind = "return"

\* C7: task_delete, task_flush and every option and scan method leave the
\* registry as it was, whatever the outcome; an entry appears only in a
\* construction (direct or by task_new) and disappears only in task_list.
C7_RegistryLifecycle ==
    ~Idle =>
        /\ lastCall.op \in MethodOps \cup {"task_flush"} => TASKS = lastCall.pre
        /\ (Pairs(TASKS) \ Pairs(lastCall.pre) # {}
              \/ DOMAIN TASKS \ DOMAIN lastCall.pre # {})
             => lastCall.op \in {"SqlmapTask", "task_new"}
        /\ (Pairs(lastCall.pre) \ Pairs(TASKS) # {}
              \/ DOMAIN lastCall.pre \ DOMAIN TASKS # {})
             => lastCall.op = "task_list"

\* A task was deleted or its server flushed, successfully, and the task's
\* object is still registered.
C7_Witness ==
    /\ lastCall.op = "task_flush"
    /\ Succeeded
    /\ lastCall.out.kind = "return"
    /\ lastCall.api_url \in DOMAIN TASKS
    /\ TASKS[lastCall.api_url] # EmptyDict

\* C8: when task_new's exchange ends in a decode failure, in success: false,
\* or in a successful body without taskid, the call raises, no object is
\* registered and the registry is what it was before the call.
C8_FailedCreateRegistersNothing ==
    (lastCall.op = "task_new"
        /\ \/ lastCall.resp.kind = "not_json"
           \/ SaysFalse
           \/ Succeeded /\ "taskid" \notin DOMAIN ReplyBody) =>
        /\ lastCall.out.kind = "raise"
        /\ lastCall.resp.kind = "not_json" => lastCall.out.exc = "DecodeError"
        /\ SaysFalse => lastCall.out.exc = "RequestException"
        /\ Succeeded => lastCall.out.exc = "KeyError" /\ lastCall.out.arg = "taskid"
        /\ \A i \in 1..Len(lastCall.events) : lastCall.events[i].e # "put"
        /\ TASKS = lastCall.pre

\* task_new failed on a missing taskid for a server the registry does not
\* know, while it knows another.
C8_Witness ==
    /\ lastCall.op = "task_new"
    /\ Succeeded
    /\ "taskid" \notin DOMAIN ReplyBody
    /\ Raised("KeyError")
    /\ lastCall.api_url \notin DOMAIN TASKS
    /\ DOMAIN TASKS # {}

\* C9: every public operation issues exactly one HTTP request per call,
\* returned or raised, to its own URL, and issues it before anything else
\* it does (task_list: before any change of the registry, and in the
\* short-circuit too).
C9_SingleExchange ==
    Called =>
        /\ Cardinality(HttpEvents) = 1
        /\ lastCall.events[1].e = "http"
        /\ lastCall.events[1].url = RequestUrl

\* task_list has sent its request and then popped from the registry.
C9_Witness ==
    /\ lastCall.op = "task_list"
    /\ \E i \in 1..Len(lastCall.events) : lastCall.events[i].e = "pop"
    /\ TASKS # lastCall.pre

----------------------------------------------------------------------------
(* Two callers *)

Finished(c) == pc[c] = "done" \/ (~sync /\ pc[c] = "exit")

\* Caller c's object is in the registry at (api_url, task_id).
Registered(c) ==
    /\ args[c].api_url \in DOMAIN top
    /\ LET items == heap[top[args[c].api_url]] IN
         \E i \in 1..Len(items) :
            items[i].key = args[c].task_id /\ items[i].val = SelfOf(c)

\* The server had an entry before the callers started.
HadEntry(s) ==
    \E r \in 1..Len(heap) : \E i \in 1..Len(heap[r]) : heap[r][i].val = Earlier(s)

\* Both callers have constructed a task, with different task ids, for one
\* server that had no entry when they started.
SameFreshServer ==
    /\ \A c \in Callers : Finished(c)
    /\ args["c1"].api_url = args["c2"].api_url
    /\ args["c1"].task_id # args["c2"].task_id
    /\ ~HadEntry(args["c1"].api_url)

\* C10: two callers registering different task ids for one server without an
\* entry: with the whole registration under one lock both objects are
\* registered; without it one object may be lost, and never both.
C10_LostUpdateOnlyUnlocked ==
    SameFreshServer =>
        /\ \E c \in Callers : Registered(c)
        /\ sync => \A c \in Callers : Registered(c)

\* The lost update: both callers are through and only one object is there.
C10_Witness ==
    /\ SameFreshServer
    /\ ~sync
    /\ \E c \in Callers : ~Registered(c)

=============================================================================
